---- MODULE Spec2Model ----
(***************************************************************************)
(* Model of the price agents of segment4:                                  *)
(*   price_agents/autonomous_planning_agent.py  (planner and its tools)    *)
(*   price_agents/frontier_agent.py             (get_price, price)         *)
(*                                                                         *)
(* Numbers.  Python floats are modelled as exact decimals                  *)
(* [m |-> mantissa, e |-> number of decimal places], value m / 10^e, kept  *)
(* normalised (no trailing zero in the fraction).  Binary rounding of      *)
(* floats is not modelled.                                                 *)
(* Text.  A Python str is a sequence of one-character strings.             *)
(***************************************************************************)
EXTENDS Integers, Sequences, FiniteSets, TLC

\* Python's None; a record, so that it compares with every object of the model
None == [none |-> TRUE]

(***************************************************************************)
(* Bounds of the model.                                                    *)
(***************************************************************************)
MaxLen == 4

(***************************************************************************)
(* Decimal arithmetic standing for float arithmetic.                       *)
(***************************************************************************)
Dec(m, e) == [m |-> m, e |-> e]

RECURSIVE Pow10(_)
Pow10(n) == IF n = 0 THEN 1 ELSE 10 * Pow10(n - 1)

RECURSIVE Norm(_)
Norm(x) ==
  IF x.m = 0 THEN Dec(0, 0)
  ELSE IF x.e > 0 /\ x.m % 10 = 0 THEN Norm(Dec(x.m \div 10, x.e - 1))
  ELSE x

Max(a, b) == IF a >= b THEN a ELSE b

\* x + y
Add(x, y) ==
  LET e == Max(x.e, y.e)
  IN  Norm(Dec(x.m * Pow10(e - x.e) + y.m * Pow10(e - y.e), e))

\* x - y
Sub(x, y) ==
  LET e == Max(x.e, y.e)
  IN  Norm(Dec(x.m * Pow10(e - x.e) - y.m * Pow10(e - y.e), e))

\* x / 2.0
DivBy2(x) == Norm(Dec(5 * x.m, x.e + 1))

Zero == Dec(0, 0)

(***************************************************************************)
(* FrontierAgent.get_price, step by step.                                  *)
(***************************************************************************)
Digits == {"0", "1", "2", "3", "4", "5", "6", "7", "8", "9"}

IsDigit(c) == c \in Digits

DigitVal(c) ==
  CASE c = "0" -> 0 [] c = "1" -> 1 [] c = "2" -> 2 [] c = "3" -> 3
    [] c = "4" -> 4 [] c = "5" -> 5 [] c = "6" -> 6 [] c = "7" -> 7
    [] c = "8" -> 8 [] c = "9" -> 9

\* s.replace(ch, ""): every occurrence of the character is removed
RECURSIVE replace(_, _)
replace(s, ch) ==
  IF s = <<>> THEN <<>>
  ELSE IF Head(s) = ch THEN replace(Tail(s), ch)
  ELSE <<Head(s)>> \o replace(Tail(s), ch)

\* length of the longest run of digits of s that starts at position p
RECURSIVE DigitRun(_, _)
DigitRun(s, p) ==
  IF p <= Len(s) /\ IsDigit(s[p]) THEN 1 + DigitRun(s, p + 1) ELSE 0

\* \.\d+ at position q: the last position matched, 0 when it does not match
DotDigits(s, q) ==
  IF q <= Len(s) /\ s[q] = "." /\ DigitRun(s, q + 1) > 0
  THEN q + DigitRun(s, q + 1)
  ELSE 0

\* \d*\.\d+ at position q, \d* having taken k digits: greedy, giving back
\* one digit at a time until the rest matches
RECURSIVE DigitsDotDigits(_, _, _)
DigitsDotDigits(s, q, k) ==
  IF DotDigits(s, q + k) # 0 THEN DotDigits(s, q + k)
  ELSE IF k = 0 THEN 0
  ELSE DigitsDotDigits(s, q, k - 1)

\* first alternative [-+]?\d*\.\d+ at position p: the sign is tried first
Alt1(s, p) ==
  LET withSign == IF p <= Len(s) /\ s[p] \in {"-", "+"}
                  THEN DigitsDotDigits(s, p + 1, DigitRun(s, p + 1))
                  ELSE 0
  IN  IF withSign # 0 THEN withSign
      ELSE DigitsDotDigits(s, p, DigitRun(s, p))

\* second alternative \d+ at position p
Alt2(s, p) == IF DigitRun(s, p) > 0 THEN p + DigitRun(s, p) - 1 ELSE 0

\* the alternatives of the pattern written in the other order
MatchAt_IntegerFirst(s, p) == IF Alt2(s, p) # 0 THEN Alt2(s, p) ELSE Alt1(s, p)

\* the pattern at position p: the alternatives in the order written
MatchAt(s, p) == IF Alt1(s, p) # 0 THEN Alt1(s, p) ELSE Alt2(s, p)

\* re.search: the match at the leftmost position that has one
RECURSIVE SearchFrom(_, _)
SearchFrom(s, p) ==
  IF p > Len(s) THEN None
  ELSE IF MatchAt(s, p) # 0 THEN [group |-> SubSeq(s, p, MatchAt(s, p))]
  ELSE SearchFrom(s, p + 1)

re_search(s) == SearchFrom(s, 1)

ValueError == [error |-> "ValueError"]

\* float(text) for a plain decimal literal; ValueError for any other text
RECURSIVE FloatDigits(_, _, _, _)
FloatDigits(t, m, e, dot) ==
  IF t = <<>> THEN Dec(m, e)
  ELSE IF Head(t) = "." THEN FloatDigits(Tail(t), m, e, TRUE)
  ELSE FloatDigits(Tail(t), 10 * m + DigitVal(Head(t)),
                   IF dot THEN e + 1 ELSE e, dot)

float(t) ==
  LET signed == t # <<>> /\ Head(t) \in {"-", "+"}
      body   == IF signed THEN Tail(t) ELSE t
      dots   == Cardinality({i \in 1..Len(body) : body[i] = "."})
      digs   == Cardinality({i \in 1..Len(body) : IsDigit(body[i])})
      abs    == FloatDigits(body, 0, 0, FALSE)
  IN  IF dots > 1 \/ digs = 0 \/ dots + digs # Len(body) THEN ValueError
      ELSE IF signed /\ Head(t) = "-" THEN Norm(Dec(0 - abs.m, abs.e))
      ELSE Norm(abs)

ReplaceStep(s) == replace(replace(s, "$"), ",")

ReturnStep(mt) == IF mt # None THEN float(mt.group) ELSE Zero

get_price(str) == ReturnStep(re_search(ReplaceStep(str)))

(***************************************************************************)
(* Reply texts of the completion service.                                  *)
(***************************************************************************)
Alphabet == {"$", ",", "-", "+", ".", "0", "5", "a"}

Strings(n) == UNION {[1..k -> Alphabet] : k \in 0..n}

Example1 == <<"$", "1", ",", "2", "3", "4", ".", "5", "0">>
Example2 == <<"n", "o", " ", "d", "i", "g", "i", "t", "s", " ",
              "h", "e", "r", "e">>
Example3 == <<"P", "r", "i", "c", "e", " ", "i", "s", " ", "$",
              "9", "9", "9">>

ReplyTexts == Strings(MaxLen) \cup {Example1, Example2, Example3}

VARIABLES
  reply,     \* frontier_agent.py:109  the text of the completion
  s,         \* frontier_agent.py:90   get_price's parameter and local
  match,     \* frontier_agent.py:95
  result,    \* frontier_agent.py:110  what get_price returned to price
  fpc,       \* position of the price call
  planner,      \* autonomous_planning_agent.py:20   module global
  memory,       \* :89   self.memory of each orchestrator
  opportunity,  \* :90   self.opportunity of each orchestrator
  pc,           \* position of each orchestrator's plan call
  retval,       \* :146  the value plan handed to its caller
  outbox,       \* what each orchestrator's messenger delivered in the run
  accepted,     \* the first notify of the run that went through
  assigns,      \* assignments of an Opportunity to the slot in the run
  calls,        \* capability invocations of the run
  scans,        \* what the scanner returned in the run
  failed,       \* a collaborator call failed in the run
  previous,     \* how the preceding run of the orchestrator ended
  last,         \* the latest capability invocation and its result
  supplied,     \* :133  the memory argument of the orchestrator's plan call
  attempts,     \* :66   calls of each orchestrator's messenger in the run
  trace,     \* the collaborator calls of one estimate_true_value invocation
  epc,       \* position of that estimate_true_value invocation
  gpc,       \* :109-131, 144-146  position of a plan call in run_async_task and go
  server,    \* :123  the MCPServerStdio connection of the run
  ambient,   \* the loop running in the thread that calls plan, if any
  loop,      \* :111, 113  run_async_task's local
  created,   \* :113  loops made by new_event_loop so far
  active,    \* the loops that are running
  patched,   \* :119  nest_asyncio.apply has been called
  turns,     \* :130  turns the decision process has taken in the run
  inflight   \* :23-72  the capability invocations issued and where each stands

fvars == <<reply, s, match, result, fpc>>

pvars == <<planner, memory, opportunity, pc, retval, outbox, accepted,
           assigns, calls, scans, failed, previous, last, supplied, attempts>>

evars == <<trace, epc>>

gvars == <<gpc, server, ambient, loop, created, active, patched, turns>>

svars == <<inflight>>

xvars == <<evars, gvars, svars>>

EstimateRest == <<pvars, fvars, gvars, svars>>

GoRest == <<pvars, fvars, evars, svars>>

StepsRest == <<fvars, evars, gvars>>

vars == <<pvars, fvars, xvars>>

\* frontier_agent.py:109-110: the reply is handed to get_price
FInit ==
  /\ reply \in ReplyTexts
  /\ s = reply
  /\ match = None
  /\ result = None
  /\ fpc = "called"

\* frontier_agent.py:94
GetPriceReplace ==
  /\ fpc = "called"
  /\ s' = ReplaceStep(s)
  /\ fpc' = "replaced"
  /\ UNCHANGED <<reply, match, result, pvars, xvars>>

\* frontier_agent.py:95
GetPriceSearch ==
  /\ fpc = "replaced"
  /\ match' = re_search(s)
  /\ fpc' = "searched"
  /\ UNCHANGED <<reply, s, result, pvars, xvars>>

\* frontier_agent.py:96 and 110-112: float() raises or the value is returned
GetPriceReturn ==
  /\ fpc = "searched"
  /\ result' = ReturnStep(match)
  /\ fpc' = IF ReturnStep(match) = ValueError THEN "raised" ELSE "returned"
  /\ UNCHANGED <<reply, s, match, pvars, xvars>>

(***************************************************************************)
(* autonomous_planning_agent.py                                            *)
(***************************************************************************)
Agents == {"A", "B"}

Descriptions == {"Widget X", "Gadget Y"}
Urls == {"http://x", "http://y"}
DealPrices == {Dec(0, 0), Dec(20, 0)}
EstimatedValues == {Dec(0, 0), Dec(50, 0)}
Memories == {<<>>, <<"http://x">>}
EstimateReplies == {<<"5", "0">>, <<"a">>, <<"-", ".", "5">>, Example1}
SpecialistPrices == {Dec(0, 0), Dec(50, 0), Dec(125, 1)}

\* the decision process issues at most MaxCalls capability invocations a run
MaxCalls == 2

Ref(a) == [ref |-> a]
Text(x) == [text |-> x]
List(x) == [list |-> x]

\* truth value of an object in a condition: None is false, a Deal, an
\* Opportunity or a selection of deals is true
Truthy(x) == x # None

\* :67
Deal(description, deal_price, url) ==
  [product_description |-> description, price |-> deal_price, url |-> url]

\* the operands of line 68 exchanged
discount_Swapped(estimated_true_value, deal_price) ==
  Sub(deal_price, estimated_true_value)

\* :68
discount(estimated_true_value, deal_price) ==
  Sub(estimated_true_value, deal_price)

\* :69-71
Opportunity(description, deal_price, estimated_true_value, url) ==
  [deal     |-> Deal(description, deal_price, url),
   estimate |-> estimated_true_value,
   discount |-> discount(estimated_true_value, deal_price)]

\* line 44 without its parentheses
estimate_Unbracketed(estimate1, estimate2) == Add(estimate1, DivBy2(estimate2))

\* :44
estimate(estimate1, estimate2) == DivBy2(Add(estimate1, estimate2))

\* scanner.scan() called without the memory
ScannerArgument_Empty(p) == List(<<>>)

\* :29  the argument handed to the scanner
ScannerArgument(p) == memory[p]

\* the test of line 62 left out
AlreadyNotified_Unguarded(p) == FALSE

\* :62
AlreadyNotified(p) == Truthy(opportunity[p])

\* a handler that also turns down a deal whose estimate is below its price
Ignored_Validating(p, args) ==
  \/ Truthy(opportunity[p])
  \/ Sub(args.estimated_true_value, args.deal_price).m < 0

\* :62-64  the invocation is ignored: nothing but the slot is looked at
Ignored(p, args) == AlreadyNotified(p)

\* the return statement placed inside the else branch
NotifyStatus_ElseOnly(sent) ==
  IF sent THEN Text("notification sent") ELSE None

\* :72
NotifyStatus(sent) == Text("notification sent")

\* line 141 left out
ResetValue_Keep(a) == opportunity[a]

\* :141
ResetValue(a) == None

\* plan ending without its return statement
PlanResult_None(a) == None

\* :146
PlanResult(a) == opportunity[a]

\* the Opportunity assigned before the messenger is called
SlotWhenNotifyRaised_Pending(p, description, deal_price, estimated_true_value, url) ==
  Opportunity(description, deal_price, estimated_true_value, url)

\* :66-71  the slot when messenger.notify raised: nothing was assigned yet
SlotWhenNotifyRaised(p, description, deal_price, estimated_true_value, url) ==
  opportunity[p]

\* :80-91  __init__, and :20
PInit ==
  /\ planner = None
  /\ memory = [a \in Agents |-> None]
  /\ opportunity = [a \in Agents |-> None]
  /\ pc = [a \in Agents |-> "idle"]
  /\ retval = [a \in Agents |-> None]
  /\ outbox = [a \in Agents |-> <<>>]
  /\ accepted = [a \in Agents |-> None]
  /\ assigns = [a \in Agents |-> 0]
  /\ calls = [a \in Agents |-> 0]
  /\ scans = [a \in Agents |-> {}]
  /\ failed = [a \in Agents |-> FALSE]
  /\ previous = [a \in Agents |-> None]
  /\ last = None
  /\ supplied = [a \in Agents |-> None]
  /\ attempts = [a \in Agents |-> 0]

FIdle ==
  /\ reply = <<>>
  /\ s = <<>>
  /\ match = None
  /\ result = None
  /\ fpc = "idle"

EIdle ==
  /\ trace = <<>>
  /\ epc = "idle"

\* :109-131  no plan call has reached run_async_task yet
GIdle ==
  /\ gpc = "idle"
  /\ server = "closed"
  /\ ambient = None
  /\ loop = None
  /\ created = 0
  /\ active = {}
  /\ patched = FALSE
  /\ turns = 0

\* bound of the model: capability invocations issued in all
MaxInvocations == 3

Ids == 1 .. MaxInvocations

NoInvocation == [tool |-> "none", step |-> "none", args |-> None]

\* :130  no capability invocation has been issued yet
SIdle == inflight = [i \in Ids |-> NoInvocation]

XIdle == EIdle /\ GIdle /\ SIdle

Init == PInit /\ FIdle /\ XIdle

\* :139-144  plan up to the start of the decision process
PlanCall(a, mem) ==
  /\ pc[a] # "running"
  /\ memory' = [memory EXCEPT ![a] = List(mem)]
  /\ opportunity' = [opportunity EXCEPT ![a] = ResetValue(a)]
  /\ planner' = Ref(a)
  /\ pc' = [pc EXCEPT ![a] = "running"]
  /\ retval' = [retval EXCEPT ![a] = None]
  /\ outbox' = [outbox EXCEPT ![a] = <<>>]
  /\ accepted' = [accepted EXCEPT ![a] = None]
  /\ assigns' = [assigns EXCEPT ![a] = 0]
  /\ calls' = [calls EXCEPT ![a] = 0]
  /\ scans' = [scans EXCEPT ![a] = {}]
  /\ failed' = [failed EXCEPT ![a] = FALSE]
  /\ previous' = [previous EXCEPT
                    ![a] = [outcome |-> pc[a], slot |-> Truthy(opportunity[a])]]
  /\ supplied' = [supplied EXCEPT ![a] = List(mem)]
  /\ attempts' = [attempts EXCEPT ![a] = 0]
  /\ UNCHANGED <<last, fvars, xvars>>

\* :133-144  a plan call made while no run is in flight: the caller
\* serialises the plan calls
plan(a, mem) ==
  /\ \A b \in Agents : pc[b] # "running"
  /\ PlanCall(a, mem)

\* :133-144  the first plan call of an orchestrator, made whether or not the
\* run of another orchestrator is in flight (a second thread, or a task of
\* the loop that the run in flight is nested in)
plan_unserialised(a, mem) ==
  /\ pc[a] = "idle"
  /\ PlanCall(a, mem)

\* an exception leaves a capability handler: no handler catches it.  The
\* handlers run under agents.function_tool and Runner.run, which either let
\* it end the run (plan raises) or hand it to the decision process as the
\* text of the invocation's result (the run goes on)
ToolRaised(r, tool, cause) ==
  /\ failed' = [failed EXCEPT ![r] = TRUE]
  /\ calls' = [calls EXCEPT ![r] = calls[r] + 1]
  /\ \/ /\ pc' = [pc EXCEPT ![r] = "raised"]
        /\ last' = [tool |-> tool, cause |-> cause,
                    ret |-> [raised |-> TRUE]]
     \/ /\ pc' = pc
        /\ last' = [tool |-> tool, cause |-> cause,
                    ret |-> [error |-> "tool error"]]

ScanResults == {None, [deals |-> <<Deal("Widget X", Dec(20, 0), "http://x")>>]}

\* :23-30
scan_the_internet_for_bargains(r) ==
  /\ pc[r] = "running"
  /\ calls[r] < MaxCalls
  /\ LET p == planner.ref
     IN  \/ \E results \in ScanResults :
              /\ last' = [tool    |-> "scan",
                          memory  |-> ScannerArgument(p),
                          ret     |-> IF Truthy(results)
                                      THEN [json |-> results]
                                      ELSE Text("")]
              /\ scans' = [scans EXCEPT
                             ![r] = @ \cup {IF results = None
                                            THEN "nothing" ELSE "deals"}]
              /\ calls' = [calls EXCEPT ![r] = calls[r] + 1]
              /\ UNCHANGED <<pc, failed>>
         \/ ToolRaised(r, "scan", "scanner") /\ UNCHANGED scans
  /\ UNCHANGED <<planner, memory, opportunity, retval, outbox, accepted,
                 assigns, previous, supplied, attempts, fvars, xvars>>

\* :33-46, with frontier_agent.py:98-112 for estimate1
estimate_true_value(r, description) ==
  /\ pc[r] = "running"
  /\ calls[r] < MaxCalls
  /\ \/ \E rp \in EstimateReplies, estimate2 \in SpecialistPrices :
          LET estimate1 == get_price(rp)
          IN  IF estimate1 = ValueError
              THEN ToolRaised(r, "estimate", "ValueError")
              ELSE /\ last' =
                        [tool        |-> "estimate",
                         description |-> description,
                         reply       |-> rp,
                         estimate1   |-> estimate1,
                         estimate2   |-> estimate2,
                         ret |-> [json |->
                                   [description |-> description,
                                    estimated_true_value |->
                                      estimate(estimate1, estimate2)]]]
                   /\ calls' = [calls EXCEPT ![r] = calls[r] + 1]
                   /\ UNCHANGED <<pc, failed>>
     \/ \E cause \in {"frontier", "specialist"} :
          ToolRaised(r, "estimate", cause)
  /\ UNCHANGED <<planner, memory, opportunity, retval, outbox, accepted,
                 assigns, scans, previous, supplied, attempts, fvars, xvars>>

NotifyArgs(description, deal_price, estimated_true_value, url) ==
  [description |-> description, deal_price |-> deal_price,
   estimated_true_value |-> estimated_true_value, url |-> url]

\* :49-72
notify_user_of_deal(r, description, deal_price, estimated_true_value, url) ==
  /\ pc[r] = "running"
  /\ calls[r] < MaxCalls
  /\ LET p    == planner.ref
         args == NotifyArgs(description, deal_price, estimated_true_value, url)
     IN  IF Ignored(p, args)
         THEN /\ last' = [tool |-> "notify", args |-> args, sent |-> FALSE,
                          ret |-> NotifyStatus(FALSE)]
              /\ calls' = [calls EXCEPT ![r] = calls[r] + 1]
              /\ UNCHANGED <<opportunity, outbox, accepted, assigns, pc,
                             failed, attempts>>
         ELSE \/ /\ outbox' = [outbox EXCEPT ![p] = Append(@, args)]
                 /\ attempts' = [attempts EXCEPT ![p] = @ + 1]
                 /\ opportunity' =
                      [opportunity EXCEPT
                         ![p] = Opportunity(description, deal_price,
                                            estimated_true_value, url)]
                 /\ assigns' = [assigns EXCEPT ![p] = @ + 1]
                 /\ last' = [tool |-> "notify", args |-> args, sent |-> TRUE,
                             ret |-> NotifyStatus(TRUE)]
                 /\ accepted' =
                      [accepted EXCEPT
                         ![p] = IF @ = None
                                THEN [args |-> args,
                                      ret  |-> NotifyStatus(TRUE)]
                                ELSE @]
                 /\ calls' = [calls EXCEPT ![r] = calls[r] + 1]
                 /\ UNCHANGED <<pc, failed>>
              \/ /\ ToolRaised(r, "notify", "messenger")
                 /\ attempts' = [attempts EXCEPT ![p] = @ + 1]
                 /\ opportunity' =
                      [opportunity EXCEPT
                         ![p] = SlotWhenNotifyRaised(p, description,
                                  deal_price, estimated_true_value, url)]
                 /\ assigns' =
                      [assigns EXCEPT
                         ![p] = IF opportunity'[p] # opportunity[p]
                                THEN @ + 1 ELSE @]
                 /\ UNCHANGED <<outbox, accepted>>
  /\ UNCHANGED <<planner, memory, retval, scans, previous, supplied, fvars, xvars>>

\* :130-131 and :144-146  the decision process declares completion
PlanReturn(r) ==
  /\ pc[r] = "running"
  /\ retval' = [retval EXCEPT ![r] = PlanResult(r)]
  /\ pc' = [pc EXCEPT ![r] = "returned"]
  /\ UNCHANGED <<planner, memory, opportunity, outbox, accepted, assigns,
                 calls, scans, failed, previous, last, supplied, attempts,
                 fvars, xvars>>

\* :123-130 and :144  the decision process or its file-access server fails
GoRaises(r) ==
  /\ pc[r] = "running"
  /\ pc' = [pc EXCEPT ![r] = "raised"]
  /\ UNCHANGED <<planner, memory, opportunity, retval, outbox, accepted,
                 assigns, calls, scans, failed, previous, last, supplied,
                 attempts, fvars, xvars>>

Callers == {"A"}

Next ==
  \/ \E a \in Callers, mem \in Memories : plan(a, mem)
  \/ \E r \in Callers : scan_the_internet_for_bargains(r)
  \/ \E r \in Callers, d \in Descriptions : estimate_true_value(r, d)
  \/ \E r \in Callers, d \in Descriptions, dp \in DealPrices,
        etv \in EstimatedValues, u \in Urls :
          notify_user_of_deal(r, d, dp, etv, u)
  \/ \E r \in Callers : PlanReturn(r)
  \/ \E r \in Callers : GoRaises(r)

Spec == Init /\ [][Next]_vars

\* two orchestrators whose callers do not serialise the plan calls
NextTwo ==
  \/ \E a \in Agents, mem \in Memories : plan_unserialised(a, mem)
  \/ \E r \in Agents : scan_the_internet_for_bargains(r)
  \/ \E r \in Agents :
        notify_user_of_deal(r, "Widget X", Dec(20, 0), Dec(50, 0), "http://x")
  \/ \E r \in Agents : PlanReturn(r)
  \/ \E r \in Agents : GoRaises(r)

SpecTwo == Init /\ [][NextTwo]_vars

(***************************************************************************)
(* One estimate_true_value invocation, collaborator call by collaborator   *)
(* call (autonomous_planning_agent.py:33-46, frontier_agent.py:66-112)     *)
(***************************************************************************)
\* frontier_agent.py:75-88, 98-112 and autonomous_planning_agent.py:41-42:
\* no try/except and no loop around a collaborator call, so an exception
\* raised by one leaves price and estimate_true_value
OnCollaboratorError_Retry(at) == at
OnCollaboratorError(at) == "raised"

\* a collaborator call made at position 'at': it is logged, and it either
\* returns, which moves the invocation to position 'to', or raises
CollaboratorCall(at, call, to) ==
  /\ epc = at
  /\ trace' = Append(trace, call)
  /\ epc' \in {to, OnCollaboratorError(at)}

\* autonomous_planning_agent.py:40-41  estimate_true_value is entered and
\* calls planner.frontier.price
EstimateCalled ==
  /\ trace = <<>>
  /\ epc = "called"
  /\ FIdle
  /\ GIdle
  /\ SIdle

EstimateInit == PInit /\ EstimateCalled

\* frontier_agent.py:82 (66-73)  the preprocess completion
preprocess ==
  /\ CollaboratorCall("called", [call |-> "preprocess"], "preprocessed")
  /\ UNCHANGED EstimateRest

\* frontier_agent.py:84  the embedding of the preprocessed text
encode ==
  /\ CollaboratorCall("preprocessed", [call |-> "encode"], "encoded")
  /\ UNCHANGED EstimateRest

\* frontier_agent.py:86-88  the vector-index query and the unpacking of its
\* result
query ==
  /\ CollaboratorCall("encoded", [call |-> "query", n_results |-> 5], "queried")
  /\ UNCHANGED EstimateRest

\* frontier_agent.py:107-110  the pricing completion; its reply goes to
\* get_price
completion ==
  /\ CollaboratorCall("queried", [call |-> "completion"], "completed")
  /\ IF epc' = "completed"
       THEN /\ reply' \in ReplyTexts
            /\ s' = reply'
            /\ fpc' = "called"
            /\ UNCHANGED <<match, result>>
       ELSE UNCHANGED fvars
  /\ UNCHANGED <<pvars, gvars, svars>>

\* frontier_agent.py:110-112 and autonomous_planning_agent.py:41  price
\* returns what get_price returned, or get_price raised
FrontierReturn ==
  /\ epc = "completed"
  /\ fpc \in {"returned", "raised"}
  /\ epc' = IF fpc = "returned" THEN "frontier_returned" ELSE "raised"
  /\ UNCHANGED <<trace, EstimateRest>>

\* autonomous_planning_agent.py:42  planner.specialist.price
specialist_price ==
  /\ CollaboratorCall("frontier_returned", [call |-> "specialist"],
                      "specialist_returned")
  /\ UNCHANGED EstimateRest

\* autonomous_planning_agent.py:43-46
EstimateReturn ==
  /\ epc = "specialist_returned"
  /\ epc' = "returned"
  /\ UNCHANGED <<trace, EstimateRest>>

EstimateNext ==
  \/ preprocess
  \/ encode
  \/ query
  \/ completion
  \/ GetPriceReplace
  \/ GetPriceSearch
  \/ GetPriceReturn
  \/ FrontierReturn
  \/ specialist_price
  \/ EstimateReturn

SpecEstimate == EstimateInit /\ [][EstimateNext]_vars

(***************************************************************************)
(* One orchestrator's plan calls, step by step through run_async_task and  *)
(* go (autonomous_planning_agent.py:109-131, 144-146)                      *)
(***************************************************************************)
\* bounds of the model: loops made by new_event_loop, and turns of the
\* decision process in one run
MaxLoops == 2
MaxTurns == 2

\* the loop that is running in the calling thread, when there is one
AmbientLoop == Ref(0)

\* :110-117  get_running_loop raises RuntimeError when no loop is running in
\* the calling thread, which selects the except branch, and returns the
\* running loop otherwise, which selects the else branch
BridgeBranch_AlwaysFresh(running) == "except"
BridgeBranch(running) == IF running = None THEN "except" ELSE "else"

\* :115, 120  run_until_complete of an unpatched loop raises RuntimeError
\* when that loop or another loop of the thread is running; after
\* nest_asyncio.apply it runs nested
CanRunUntilComplete(l) == patched \/ active = {}

\* :123  'async with' awaits __aexit__ of the server on the way out of the
\* block, whether the block ended or raised
ReleasedOnExit_NormalOnly(kind) == kind = "exit_normal"
ReleasedOnExit(kind) == TRUE

\* :144, 109  plan calls run_async_task(self.go()); the calling thread is
\* inside a running loop or not
run_async_task(inloop) ==
  /\ gpc \in {"idle", "returned", "raised"}
  /\ created < MaxLoops
  /\ gpc' = "bridge"
  /\ ambient' = IF inloop THEN AmbientLoop ELSE None
  /\ active' = IF inloop THEN {AmbientLoop.ref} ELSE {}
  /\ loop' = None
  /\ turns' = 0
  /\ UNCHANGED <<server, created, patched, GoRest>>

\* :110-112, 116
get_running_loop ==
  /\ gpc = "bridge"
  /\ gpc' = BridgeBranch(ambient)
  /\ loop' = IF BridgeBranch(ambient) = "else" THEN ambient ELSE loop
  /\ UNCHANGED <<server, ambient, created, active, patched, turns, GoRest>>

\* :113-114
new_event_loop ==
  /\ gpc = "except"
  /\ created' = created + 1
  /\ loop' = Ref(created + 1)
  /\ gpc' = "ready"
  /\ UNCHANGED <<server, ambient, active, patched, turns, GoRest>>

\* :117-119
nest_asyncio_apply ==
  /\ gpc = "else"
  /\ patched' = TRUE
  /\ gpc' = "ready"
  /\ UNCHANGED <<server, ambient, loop, created, active, turns, GoRest>>

\* :115, 120  run_until_complete starts to drive go on the loop, or raises
run_until_complete ==
  /\ gpc = "ready"
  /\ IF CanRunUntilComplete(loop)
       THEN /\ active' = active \cup {loop.ref}
            /\ gpc' = "entering"
       ELSE /\ active' = active
            /\ gpc' = "raised"
  /\ UNCHANGED <<server, ambient, loop, created, patched, turns, GoRest>>

\* :123  __aenter__ of MCPServerStdio: the connection is made, or fails
server_aenter ==
  /\ gpc = "entering"
  /\ \/ server' = "open" /\ gpc' = "deciding"
     \/ server' = server /\ gpc' = "go_raised"
  /\ UNCHANGED <<ambient, loop, created, active, patched, turns, GoRest>>

\* :130  one turn of the decision process
Runner_turn ==
  /\ gpc = "deciding"
  /\ turns < MaxTurns
  /\ turns' = turns + 1
  /\ UNCHANGED <<gpc, server, ambient, loop, created, active, patched, GoRest>>

\* :130  Runner.run returns the reply, or raises
Runner_ends ==
  /\ gpc = "deciding"
  /\ gpc' \in {"exit_normal", "exit_error"}
  /\ UNCHANGED <<server, ambient, loop, created, active, patched, turns, GoRest>>

\* :123, 131  the way out of the 'async with' block
server_aexit ==
  /\ gpc \in {"exit_normal", "exit_error"}
  /\ server' = IF ReleasedOnExit(gpc) THEN "closed" ELSE server
  /\ gpc' = IF gpc = "exit_normal" THEN "go_returned" ELSE "go_raised"
  /\ UNCHANGED <<ambient, loop, created, active, patched, turns, GoRest>>

\* :115, 120, 144-146  run_until_complete hands the outcome of go to plan; a
\* loop made for the run stops running, the caller's loop runs on
run_async_task_ends ==
  /\ gpc \in {"go_returned", "go_raised"}
  /\ active' = IF loop = ambient THEN active ELSE active \ {loop.ref}
  /\ gpc' = IF gpc = "go_returned" THEN "returned" ELSE "raised"
  /\ UNCHANGED <<server, ambient, loop, created, patched, turns, GoRest>>

GoInit == PInit /\ FIdle /\ XIdle

GoNext ==
  \/ \E inloop \in BOOLEAN : run_async_task(inloop)
  \/ get_running_loop
  \/ new_event_loop
  \/ nest_asyncio_apply
  \/ run_until_complete
  \/ server_aenter
  \/ Runner_turn
  \/ Runner_ends
  \/ server_aexit
  \/ run_async_task_ends

SpecGo == GoInit /\ [][GoNext]_vars

(***************************************************************************)
(* The capability invocations of a run, handler statement by handler       *)
(* statement (autonomous_planning_agent.py:23-72, 130)                     *)
(***************************************************************************)
\* the orchestrator whose runs are followed
Runner == "A"

\* :130  the tool calls the decision process can put in one reply
ToolCalls ==
  { [tool |-> "scan", args |-> None],
    [tool |-> "estimate", args |-> None],
    [tool |-> "notify",
     args |-> NotifyArgs("Widget X", Dec(20, 0), Dec(50, 0), "http://x")],
    [tool |-> "notify",
     args |-> NotifyArgs("Gadget Y", Dec(0, 0), Dec(50, 0), "http://y")] }

Batches == { <<c>> : c \in ToolCalls } \cup (ToolCalls \X ToolCalls)

Issued == { i \in Ids : inflight[i].tool # "none" }

\* the invocation has entered its handler and not left it
Inside(i) == inflight[i].step \notin {"none", "pending", "returned", "raised"}

AllDone == \A i \in Ids : inflight[i].step \in {"none", "returned", "raised"}

\* :23-24, 33-34, 49-52  the handlers are plain 'def' functions and no
\* statement of lines 23-72 awaits: a handler that has been entered runs to
\* its return before the loop resumes anything else
SuspendsAt_AwaitedMessenger(tool, step) == tool = "notify" /\ step = "checked"
SuspendsAt(tool, step) == FALSE

\* the loop can run a statement of invocation i
MayRun(i) ==
  \A j \in Ids \ {i} :
    Inside(j) => SuspendsAt(inflight[j].tool, inflight[j].step)

AtStep(i, step) == [inflight EXCEPT ![i].step = step]

\* :130  a reply of the decision process with one or two tool calls; the
\* runner starts them together
issue(batch) ==
  /\ pc[Runner] = "running"
  /\ AllDone
  /\ Cardinality(Issued) + Len(batch) <= MaxInvocations
  /\ inflight' =
       [i \in Ids |->
          IF /\ i > Cardinality(Issued)
             /\ i <= Cardinality(Issued) + Len(batch)
          THEN [tool |-> batch[i - Cardinality(Issued)].tool,
                step |-> "pending",
                args |-> batch[i - Cardinality(Issued)].args]
          ELSE inflight[i]]
  /\ UNCHANGED <<pvars, StepsRest>>

\* :28, 40, 62-64  the handler is entered; notify tests the slot
handler_enter(i) ==
  /\ inflight[i].step = "pending"
  /\ MayRun(i)
  /\ inflight' =
       AtStep(i, CASE inflight[i].tool = "scan" -> "scanning"
                   [] inflight[i].tool = "estimate" -> "pricing"
                   [] OTHER -> IF Ignored(planner.ref, inflight[i].args)
                               THEN "ignored" ELSE "checked")
  /\ UNCHANGED <<pvars, StepsRest>>

\* :29, 41-42  the scanner, or the two estimators, are called
collaborator_call(i) ==
  /\ inflight[i].step \in {"scanning", "pricing"}
  /\ MayRun(i)
  /\ \/ inflight' = AtStep(i, IF inflight[i].tool = "scan"
                              THEN "scanned" ELSE "priced")
     \/ inflight' = AtStep(i, "raised")
  /\ UNCHANGED <<pvars, StepsRest>>

\* :66  messenger.notify
notify_send(i) ==
  /\ inflight[i].step = "checked"
  /\ MayRun(i)
  /\ attempts' = [attempts EXCEPT ![planner.ref] = @ + 1]
  /\ \/ /\ inflight' = AtStep(i, "sent")
        /\ outbox' = [outbox EXCEPT ![planner.ref] = Append(@, inflight[i].args)]
     \/ /\ inflight' = AtStep(i, "raised")
        /\ outbox' = outbox
  /\ UNCHANGED <<planner, memory, opportunity, pc, retval, accepted, assigns,
                 calls, scans, failed, previous, last, supplied, StepsRest>>

\* :67-71
notify_assign(i) ==
  /\ inflight[i].step = "sent"
  /\ MayRun(i)
  /\ inflight' = AtStep(i, "assigned")
  /\ LET args == inflight[i].args
     IN  opportunity' =
           [opportunity EXCEPT
              ![planner.ref] = Opportunity(args.description, args.deal_price,
                                           args.estimated_true_value, args.url)]
  /\ assigns' = [assigns EXCEPT ![planner.ref] = @ + 1]
  /\ UNCHANGED <<planner, memory, pc, retval, outbox, accepted, calls, scans,
                 failed, previous, last, supplied, attempts, StepsRest>>

\* :30-31, 43-46, 64, 72  the handler returns its text
handler_return(i) ==
  /\ inflight[i].step \in {"scanned", "priced", "ignored", "assigned"}
  /\ MayRun(i)
  /\ inflight' = AtStep(i, "returned")
  /\ UNCHANGED <<pvars, StepsRest>>

\* :130-131, 144-146  the decision process declares completion once the
\* invocations it issued have ended
steps_return ==
  /\ AllDone
  /\ PlanReturn(Runner)

StepsInit == PInit /\ FIdle /\ XIdle

StepsNext ==
  \/ plan(Runner, <<>>)
  \/ \E batch \in Batches : issue(batch)
  \/ \E i \in Ids : handler_enter(i)
  \/ \E i \in Ids : collaborator_call(i)
  \/ \E i \in Ids : notify_send(i)
  \/ \E i \in Ids : notify_assign(i)
  \/ \E i \in Ids : handler_return(i)
  \/ steps_return

SpecSteps == StepsInit /\ [][StepsNext]_vars

FNext == GetPriceReplace \/ GetPriceSearch \/ GetPriceReturn

\* a price call on an orchestrator's frontier agent, outside any run
PriceInit == PInit /\ FInit /\ XIdle

SpecPrice == PriceInit /\ [][FNext]_vars

(***************************************************************************)
(* Properties.                                                             *)
(***************************************************************************)
\* x and y have the same value, whatever their numbers of decimal places
ValueEq(x, y) == x.m * Pow10(y.e) = y.m * Pow10(x.e)

\* the latest capability invocation was of this tool and returned a text
Returned(tool) ==
  /\ last # None
  /\ last.tool = tool
  /\ "raised" \notin DOMAIN last.ret
  /\ "error" \notin DOMAIN last.ret

\* an invocation of one of the tools is the step being taken by a's run
Invokes(a, tools) ==
  /\ calls'[a] = calls[a] + 1
  /\ last'.tool \in tools

\* the Opportunity that a notify with these arguments is to record, but for
\* its discount
SameDeal(o, args) ==
  /\ o.deal.product_description = args.description
  /\ o.deal.price = args.deal_price
  /\ o.deal.url = args.url
  /\ o.estimate = args.estimated_true_value

\* C1: within one run the Opportunity slot is assigned at most once and the
\* notification transport delivers at most once, whatever invocations the
\* decision process chooses.
AtMostOneOpportunity ==
  \A a \in Agents : assigns[a] <= 1 /\ Len(outbox[a]) <= 1

\* a second notify, with other arguments, was issued after the first one
SecondNotifyIssued ==
  \E a \in Agents :
    /\ pc[a] = "running"
    /\ assigns[a] = 1
    /\ Len(outbox[a]) = 1
    /\ Returned("notify")
    /\ ~last.sent
    /\ last.args # outbox[a][1]

\* C2: once an Opportunity is captured in a run, a later notify returns the
\* status text of the first one, delivers nothing and leaves the recorded
\* Opportunity as it is.
LaterNotifyIsNoOp ==
  [][\A a \in Agents :
       (pc[a] = "running" /\ accepted[a] # None /\ Invokes(a, {"notify"}))
         => /\ last'.ret = accepted[a].ret
            /\ outbox' = outbox
            /\ opportunity' = opportunity]_vars

\* a later notify with other arguments returned, the Opportunity of the
\* first one in the slot
LaterNotifyReturned ==
  \E a \in Agents :
    /\ pc[a] = "running"
    /\ accepted[a] # None
    /\ Returned("notify")
    /\ ~last.sent
    /\ last.args.deal_price # accepted[a].args.deal_price
    /\ last.ret = Text("notification sent")
    /\ SameDeal(opportunity[a], accepted[a].args)

\* C3: what plan returns is none or an Opportunity whose discount is its
\* estimate minus its deal's price, the deal and the estimate being the
\* arguments of the accepted notify.
ReturnedDiscountExact ==
  \A a \in Agents :
    pc[a] = "returned" =>
      \/ retval[a] = None
      \/ /\ ValueEq(Add(retval[a].discount, retval[a].deal.price),
                    retval[a].estimate)
         /\ accepted[a] # None
         /\ SameDeal(retval[a], accepted[a].args)

\* plan returned the Opportunity of Widget X offered at 20 and worth 50
ReturnedDiscountThirty ==
  \E a \in Agents :
    /\ pc[a] = "returned"
    /\ retval[a] # None
    /\ retval[a].deal.price = Dec(20, 0)
    /\ retval[a].estimate = Dec(50, 0)
    /\ retval[a].discount = Dec(30, 0)

\* C4: a run that completes normally returns an Opportunity exactly when a
\* notify was accepted in it, and then the one of the first accepted
\* notify; scan and estimate never write the slot.
ReturnsTheAcceptedOpportunity ==
  /\ [](\A a \in Agents :
          pc[a] = "returned" =>
            /\ retval[a] # None <=> accepted[a] # None
            /\ accepted[a] # None =>
                 /\ retval[a] = opportunity[a]
                 /\ SameDeal(retval[a], accepted[a].args))
  /\ [][\A a \in Agents :
          Invokes(a, {"scan", "estimate"}) => opportunity' = opportunity]_vars

\* a run returned its Opportunity after a scan or an estimate that followed
\* the accepted notify
ReturnedAfterLaterScan ==
  \E a \in Agents :
    /\ pc[a] = "returned"
    /\ retval[a] # None
    /\ accepted[a] # None
    /\ (Returned("scan") \/ Returned("estimate"))

\* C5: every plan call resets the slot to none before any invocation of the
\* new run, whatever the outcome of the run before; a run without an
\* accepted notify returns none even after a run that captured one.
PlanResetsOpportunity ==
  /\ [][\A a \in Agents :
          (pc[a] # "running" /\ pc'[a] = "running")
            => opportunity'[a] = None /\ calls'[a] = 0]_vars
  /\ [](\A a \in Agents :
          (pc[a] = "returned" /\ accepted[a] = None /\ previous[a].slot)
            => retval[a] = None)

\* a run without a notify returned none, the run before it having captured
\* an Opportunity
NoneAfterCapturingRun ==
  \E a \in Agents :
    /\ pc[a] = "returned"
    /\ previous[a].outcome = "returned"
    /\ previous[a].slot
    /\ accepted[a] = None
    /\ calls[a] > 0
    /\ retval[a] = None

\* the text has no digit
NoDigit(str) == \A i \in 1..Len(str) : ~IsDigit(str[i])

\* C6 as claimed: plan(memory=[]) returns none whenever the scanner returned
\* nothing in the run, whatever the decision process did.
EmptyScanYieldsNone ==
  \A a \in Agents :
    (pc[a] = "returned" /\ memory[a] = List(<<>>) /\ scans[a] = {"nothing"})
      => retval[a] = None

\* C6: plan(memory=[]) returns none whenever the scanner returned nothing in
\* the run and no notify invocation was accepted in it.
EmptyScanWithoutNotifyYieldsNone ==
  \A a \in Agents :
    (/\ pc[a] = "returned"
     /\ memory[a] = List(<<>>)
     /\ scans[a] = {"nothing"}
     /\ accepted[a] = None)
      => retval[a] = None

\* plan([]) returned none after an empty scan, the slot having held the
\* Opportunity of the run before
EmptyScanRunReturned ==
  \E a \in Agents :
    /\ pc[a] = "returned"
    /\ memory[a] = List(<<>>)
    /\ scans[a] = {"nothing"}
    /\ accepted[a] = None
    /\ previous[a].slot
    /\ retval[a] = None

\* a collaborator call of the latest invocation failed and ended a's run
CollaboratorFailureEndedRun(a) ==
  /\ pc[a] = "raised"
  /\ failed[a]
  /\ last # None
  /\ "raised" \in DOMAIN last.ret

\* C7 as claimed: when a collaborator failure has ended the run, the
\* orchestrator's Opportunity is none.
FailureLeavesNoOpportunity ==
  \A a \in Agents : CollaboratorFailureEndedRun(a) => opportunity[a] = None

\* C7: when a collaborator failure has ended the run, the orchestrator's
\* Opportunity is none exactly if no notify was accepted before the failure;
\* otherwise it is the Opportunity of the accepted notify.
FailureLeavesAcceptedOpportunity ==
  \A a \in Agents :
    CollaboratorFailureEndedRun(a) =>
      /\ opportunity[a] = None <=> accepted[a] = None
      /\ accepted[a] # None => SameDeal(opportunity[a], accepted[a].args)

\* an estimator failed after the accepted notify of the run and plan
\* raised, the Opportunity still in the slot
FailureAfterAcceptedNotify ==
  \E a \in Agents :
    /\ CollaboratorFailureEndedRun(a)
    /\ last.tool = "estimate"
    /\ accepted[a] # None
    /\ opportunity[a] # None

\* C8: the numeral that estimate_true_value returns, doubled, is the sum of
\* the two estimators' outputs for the description; a reply without a
\* numeral enters as 0 and does not fail the invocation; two zeros give 0.
MeanOfTheTwoEstimates ==
  /\ Returned("estimate") =>
       LET r == last.ret.json
       IN  /\ r.description = last.description
           /\ ValueEq(Add(r.estimated_true_value, r.estimated_true_value),
                      Add(last.estimate1, last.estimate2))
           /\ NoDigit(last.reply) =>
                /\ last.estimate1 = Zero
                /\ ValueEq(Add(r.estimated_true_value, r.estimated_true_value),
                           last.estimate2)
           /\ (last.estimate1 = Zero /\ last.estimate2 = Zero) =>
                r.estimated_true_value = Zero
  /\ ~(last # None /\ last.tool = "estimate" /\ "cause" \in DOMAIN last
        /\ last.cause = "ValueError")

\* an estimate returned 25 for a reply without numeral and a specialist
\* estimate of 50
UnparseableReplyAveraged ==
  /\ Returned("estimate")
  /\ NoDigit(last.reply)
  /\ last.estimate2 = Dec(50, 0)
  /\ last.ret.json.estimated_true_value = Dec(25, 0)

\* the text without its '$' and ',' characters
Stripped(str) == SelectSeq(str, LAMBDA c : c \notin {"$", ","})

\* one digit or more, and nothing else
AllDigits(t) == t # <<>> /\ \A i \in 1..Len(t) : IsDigit(t[i])

\* a floating-point numeral: an optional sign, digits or none, a point and
\* one digit or more
IsFloatNumeral(t) ==
  \E k \in 1..Len(t) :
    /\ t[k] = "."
    /\ AllDigits(SubSeq(t, k + 1, Len(t)))
    /\ LET pre == SubSeq(t, 1, k - 1)
       IN  \/ pre = <<>>
           \/ AllDigits(pre)
           \/ pre[1] \in {"-", "+"} /\ (Len(pre) = 1 \/ AllDigits(Tail(pre)))

\* a numeral of the text: a floating-point numeral or a run of digits
IsNumeral(t) == IsFloatNumeral(t) \/ AllDigits(t)

NumeralSpans(t) ==
  {sp \in (1..Len(t)) \X (1..Len(t)) :
     sp[1] <= sp[2] /\ IsNumeral(SubSeq(t, sp[1], sp[2]))}

\* the first numeral of the text: the one that starts leftmost, taken whole
FirstNumeral(t) ==
  LET sp == CHOOSE x \in NumeralSpans(t) :
              \A o \in NumeralSpans(t) :
                x[1] < o[1] \/ (x[1] = o[1] /\ x[2] >= o[2])
  IN  SubSeq(t, sp[1], sp[2])

\* the value of a numeral, digit by digit from its place
RECURSIVE PlaceSum(_, _)
PlaceSum(ds, i) ==
  IF i > Len(ds) THEN 0
  ELSE DigitVal(ds[i]) * Pow10(Len(ds) - i) + PlaceSum(ds, i + 1)

NumeralValue(t) ==
  LET ds   == SelectSeq(t, IsDigit)
      frac == IF \E k \in 1..Len(t) : t[k] = "."
              THEN Len(t) - (CHOOSE k \in 1..Len(t) : t[k] = ".")
              ELSE 0
      sign == IF t[1] = "-" THEN -1 ELSE 1
  IN  Dec(sign * PlaceSum(ds, 1), frac)

\* C9: get_price never raises; it returns 0.0 for a text without digit and
\* otherwise the value of the first numeral of the text without its '$' and
\* ','; the three examples of the specification give 1234.50, 0.0 and 999.0.
GetPriceFirstNumeral ==
  fpc \in {"returned", "raised"} =>
    /\ fpc = "returned"
    /\ IF NoDigit(reply)
       THEN result = Zero
       ELSE ValueEq(result, NumeralValue(FirstNumeral(Stripped(reply))))
    /\ reply = Example1 => ValueEq(result, Dec(123450, 2))
    /\ reply = Example2 => result = Zero
    /\ reply = Example3 => ValueEq(result, Dec(999, 0))

\* get_price returned 5.5 for a text whose digits a separator parts
SeparatedNumeralParsed ==
  /\ fpc = "returned"
  /\ reply = <<"5", ",", ".", "5">>
  /\ match = [group |-> <<"5", ".", "5">>]
  /\ result = Dec(55, 1)

\* C10 as claimed: price never returns a negative number, and returns 0.0
\* for a reply without numeral.
PriceNeverNegative ==
  fpc = "returned" =>
    /\ NoDigit(reply) => result = Zero
    /\ result.m >= 0

\* C15: every scan of a run hands the scanner the memory sequence that was
\* supplied to the run's plan call, and neither plan nor a capability
\* handler changes that sequence.
MemoryPassedThrough ==
  /\ [](\A a \in Agents : pc[a] # "idle" => memory[a] = supplied[a])
  /\ [][\A a \in Agents :
          (Invokes(a, {"scan"}) /\ "memory" \in DOMAIN last')
            => last'.memory = supplied[a]]_vars
  /\ [][\A a \in Agents :
          Invokes(a, {"scan", "estimate", "notify"})
            => memory' = memory /\ supplied' = supplied]_vars

\* a scan of a run called with a memory of one locator received that memory
ScanReceivedMemory ==
  \E a \in Agents :
    /\ pc[a] = "running"
    /\ supplied[a] = List(<<"http://x">>)
    /\ Returned("scan")
    /\ last.memory = List(<<"http://x">>)

\* C17: a notify is accepted exactly when no Opportunity is recorded in the
\* run, whatever its arguments; the first notify of a run is accepted and
\* recorded for every deal price and estimate, an estimate below the price
\* and zero values included.
NotifyDependsOnSlotOnly ==
  /\ [][\A a \in Agents :
          (Invokes(a, {"notify"}) /\ "sent" \in DOMAIN last')
            => /\ last'.sent <=> opportunity[a] = None
               /\ last'.sent =>
                    /\ SameDeal(opportunity'[a], last'.args)
                    /\ ValueEq(Add(opportunity'[a].discount,
                                   last'.args.deal_price),
                               last'.args.estimated_true_value)]_vars
  /\ [](\A a \in Agents :
          (pc[a] = "running" /\ calls[a] < MaxCalls /\ planner = Ref(a)
           /\ opportunity[a] = None)
            => \A d \in Descriptions, dp \in DealPrices,
                  etv \in EstimatedValues, u \in Urls :
                 ENABLED (/\ notify_user_of_deal(a, d, dp, etv, u)
                          /\ last'.ret = Text("notification sent")
                          /\ last'.sent
                          /\ SameDeal(opportunity'[a],
                                      NotifyArgs(d, dp, etv, u))))

\* the first notify of a run was accepted with an estimate of 0 for a deal
\* offered at 20
NegativeDiscountAccepted ==
  \E a \in Agents :
    /\ pc[a] = "running"
    /\ calls[a] = 1
    /\ Returned("notify")
    /\ last.sent
    /\ last.args.estimated_true_value = Dec(0, 0)
    /\ last.args.deal_price = Dec(20, 0)
    /\ opportunity[a] # None
    /\ opportunity[a].discount = Dec(-20, 0)

\* C18: the slot holds an Opportunity only if the messenger has delivered
\* exactly once in the run, with the description, price, estimate and url of
\* that Opportunity; a notify whose messenger call fails leaves the slot
\* none, and a notify that finds the slot none calls the messenger.
SlotOnlyAfterDelivery ==
  /\ [](\A a \in Agents :
          opportunity[a] # None =>
            /\ Len(outbox[a]) = 1
            /\ SameDeal(opportunity[a], outbox[a][1]))
  /\ [][\A a \in Agents :
          (Invokes(a, {"notify"}) /\ "cause" \in DOMAIN last')
            => opportunity[a] = None /\ opportunity'[a] = None]_vars
  /\ [][\A a \in Agents :
          (Invokes(a, {"notify"}) /\ opportunity[a] = None)
            => attempts'[a] = attempts[a] + 1]_vars

\* after a failed messenger call a later notify of the same run called the
\* messenger again and was recorded
NotifiedAfterFailedDelivery ==
  \E a \in Agents :
    /\ pc[a] = "running"
    /\ failed[a]
    /\ attempts[a] = 2
    /\ Len(outbox[a]) = 1
    /\ Returned("notify")
    /\ last.sent
    /\ opportunity[a] # None

\* C14 as claimed: with two orchestrators and any interleaving of their
\* plan calls, an invocation issued by the run of one reads that
\* orchestrator's memory and records into that orchestrator's slot, and
\* leaves the other orchestrator's slot and messenger alone.
RunsAreIsolated ==
  [][\A r \in Agents :
       /\ (Invokes(r, {"scan"}) /\ "memory" \in DOMAIN last')
            => last'.memory = memory[r]
       /\ (Invokes(r, {"notify"}) /\ "sent" \in DOMAIN last' /\ last'.sent)
            => /\ opportunity'[r] # None
               /\ \A b \in Agents \ {r} :
                    opportunity'[b] = opportunity[b] /\ outbox'[b] = outbox[b]
     ]_vars

\* the collaborator calls of a complete estimate_true_value invocation
CallOrder ==
  << [call |-> "preprocess"], [call |-> "encode"],
     [call |-> "query", n_results |-> 5], [call |-> "completion"],
     [call |-> "specialist"] >>

\* C16: the collaborator calls of a price call are the preprocess completion,
\* the embedding, the vector-index query with n_results 5 and the pricing
\* completion, in that order and each once; the reply is parsed only after
\* the pricing completion, once; after a failure nothing more is called; and
\* the specialist is called only once the frontier price has been returned.
FixedOrderNoRetry ==
  /\ [](/\ Len(trace) <= Len(CallOrder)
        /\ trace = SubSeq(CallOrder, 1, Len(trace))
        /\ (fpc # "idle" => Len(trace) >= 4)
        /\ (Len(trace) = 5 => fpc = "returned")
        /\ (epc \in {"frontier_returned", "specialist_returned", "returned"}
              => fpc = "returned"))
  /\ [][epc = "raised" => UNCHANGED <<trace, fpc, epc>>]_vars
  /\ [][fpc' # fpc =>
          /\ epc = IF fpc = "idle" THEN "queried" ELSE "completed"
          /\ <<fpc, fpc'>> \in { <<"idle", "called">>, <<"called", "replaced">>,
                                <<"replaced", "searched">>,
                                <<"searched", "returned">>,
                                <<"searched", "raised">> }]_vars

EstimateCompleted ==
  /\ epc = "returned"
  /\ trace = CallOrder
  /\ reply = Example1

QueryFailed ==
  /\ epc = "raised"
  /\ Len(trace) = 3
  /\ fpc = "idle"

\* C11: the file-access connection is open before the decision process
\* starts and all the while it runs, it is opened and closed only by the
\* entry into and the exit from the scoped block, and it is closed once go
\* has ended, normally or with an error, so it is never open when plan has
\* returned or raised.
ServerScopedToRun ==
  /\ [](gpc \in {"deciding", "exit_normal", "exit_error"} => server = "open")
  /\ [](gpc \in {"idle", "bridge", "except", "else", "ready", "entering",
                 "go_returned", "go_raised", "returned", "raised"}
          => server = "closed")
  /\ [][turns' # turns /\ turns' > 0 => server = "open" /\ server' = "open"]_vars
  /\ [][server' # server =>
          \/ gpc = "entering" /\ server' = "open"
          \/ gpc \in {"exit_normal", "exit_error"} /\ server' = "closed"]_vars

\* plan raised after the decision process had taken turns
RaisedAfterDeciding ==
  /\ gpc = "raised"
  /\ turns > 0
  /\ server = "closed"

\* C12: a plan call drives go on exactly one loop: with no loop running in
\* the calling thread, on a loop made for the call, which has stopped
\* running when plan ends; with a loop running, on that loop, nested, no
\* loop being made; run_until_complete never refuses, the call can always
\* take its next step, and never are two loops running.
OneLoopPerRun ==
  /\ [](Cardinality(active) <= 1)
  /\ [](gpc \in {"entering", "deciding", "exit_normal", "exit_error",
                 "go_returned", "go_raised"}
          => /\ loop # None
             /\ active = {loop.ref}
             /\ (ambient = None => loop = Ref(created))
             /\ (ambient # None => loop = ambient /\ patched))
  /\ [](gpc \in {"returned", "raised"}
          => active = IF ambient = None THEN {} ELSE {ambient.ref})
  /\ [][created' # created =>
          /\ ambient = None
          /\ gpc = "except"
          /\ created' = created + 1
          /\ ~ (created' \in active)]_vars
  /\ [][gpc = "ready" => gpc' = "entering"]_vars
  /\ [](gpc \in {"bridge", "except", "else", "ready", "entering", "deciding",
                 "exit_normal", "exit_error", "go_returned", "go_raised"}
          => ENABLED GoNext)

\* a nested run has returned after an earlier run on a loop of its own
NestedRunReturned ==
  /\ gpc = "returned"
  /\ ambient # None
  /\ loop = ambient
  /\ created = 1
  /\ turns > 0

\* C13: within a run at most one capability invocation is inside its
\* handler at a time: a statement of one invocation runs only while no other
\* invocation is inside its handler, and from the test of the slot to the
\* assignment of a notify nothing else moves and the slot is not touched, so
\* a run delivers and assigns at most once.
InvocationsDoNotOverlap ==
  /\ [](Cardinality({ i \in Ids : Inside(i) }) <= 1)
  /\ [](assigns[Runner] <= 1 /\ Len(outbox[Runner]) <= 1)
  /\ [][\A i \in Ids :
          (inflight'[i] # inflight[i] /\ inflight[i].step # "none")
            => \A j \in Ids \ {i} : ~ Inside(j) /\ inflight'[j] = inflight[j]
     ]_vars
  /\ [][\A i \in Ids :
          inflight[i].step \in {"checked", "sent"}
            => /\ \A j \in Ids \ {i} : inflight'[j] = inflight[j]
               /\ (opportunity' # opportunity
                     => inflight[i].step = "sent" /\ opportunity[Runner] = None)
     ]_vars

\* a notify is between its delivery and its assignment while a second notify
\* of the same reply waits
NotifyWaitsBehindNotify ==
  /\ inflight[1].tool = "notify" /\ inflight[1].step = "sent"
  /\ inflight[2].tool = "notify" /\ inflight[2].step = "pending"

====
